---------------------------- MODULE Spec2Model ----------------------------
(***************************************************************************)
(* Model of scripts/fetch_glucose.py: the normalizer (_get_timestamp,      *)
(* _dt_to_epoch_ms, _norm_value), the minute-bucket deduplicator           *)
(* (fetch_glucose_data) and the store writer (write_to_firebase).          *)
(*                                                                         *)
(* Time.  TLC integers are 32 bit, epoch milliseconds are not.  Every      *)
(* timestamp of the model is therefore an offset, in milliseconds, from a  *)
(* fixed origin T0 that is a whole number of minutes and lies above the    *)
(* 10**12 threshold of _dt_to_epoch_ms (any date after 2001-09-09).  With  *)
(* T0 a multiple of 60000, (T0 + x) // 60000 = T0 // 60000 + x // 60000,   *)
(* so minute buckets of offsets are minute buckets of the real values,     *)
(* shifted by a constant.                                                  *)
(***************************************************************************)
EXTENDS Integers, Sequences, FiniteSets, Bags, TLC

VARIABLES
    \* ---- _norm_value applied to one raw record
    meas,               \* the raw record handed to _norm_value
    norm,               \* its result <<value, isHi>>, or NotRun
    \* ---- fetch_glucose_data
    graph_data,         \* the graph feed (raw records, feed order)
    logbook,            \* the logbook feed
    assume_tz,          \* LIBRELINK_ASSUME_TZ
    fetch_pc,           \* "start" | "returned" | "raised"
    all_measurements,   \* the local list built by the first loop
    unique,             \* the returned list
    \* ---- the store and the runs of write_to_firebase
    store,              \* the glucose collection: a bag of documents
    wpc,                \* per run: "idle" | "commit_loop" | "commit_flush" | "done" |
                        \*          "failed" (a commit raised) | "query_failed"
    measurements,       \* per run: the argument of the current call
    existing_minutes,   \* per run: the set built from the query
    next_i,             \* per run: index of the record the loop handles next
    batch,              \* per run: the writes staged in the open batch
    added,              \* per run: the local counter
    ret,                \* per run: the returned number (NoRet before the return)
    commits,            \* per run (history): the batches this call committed
    store0,             \* per run (history): the store when the call began
    prev                \* per run (history): the call before the current one

vars == <<meas, norm, graph_data, logbook, assume_tz, fetch_pc, all_measurements,
          unique, store, wpc, measurements, existing_minutes, next_i, batch,
          added, ret, commits, store0, prev>>

normVars  == <<meas, norm>>
fetchVars == <<graph_data, logbook, assume_tz, fetch_pc, all_measurements, unique>>
writeVars == <<store, wpc, measurements, existing_minutes, next_i, batch, added,
               ret, commits, store0, prev>>

(***************************************************************************)
(* Program constants                                                       *)
(***************************************************************************)
MinuteMs == 60000
HiValue == 500
BatchCap == 450
TokyoOffsetMin == 540

(***************************************************************************)
(* Bounds of the model                                                     *)
(***************************************************************************)
MaxFeedLen == 2
MaxTick == 4
MaxFullBatches == 2

(***************************************************************************)
(* Python values.  A value is a record [type, n, s]:                       *)
(*   NoneType;  int (n its value);  float (n its value in tenths);         *)
(*   str (s its characters, one-character strings).                        *)
(***************************************************************************)
PyNone == [type |-> "NoneType", n |-> 0, s |-> <<>>]
PyInt(k) == [type |-> "int", n |-> k, s |-> <<>>]
PyFloat(tenths) == [type |-> "float", n |-> tenths, s |-> <<>>]
PyStr(chars) == [type |-> "str", n |-> 0, s |-> chars]

Abs(k) == IF k < 0 THEN 0 - k ELSE k
\* int(x) of the float x = tenths/10: truncation toward zero
TruncTenths(tenths) == IF tenths < 0 THEN 0 - (Abs(tenths) \div 10) ELSE tenths \div 10

IsSpace(c) == c = " "
RECURSIVE LStrip(_)
LStrip(s) == IF s # <<>> /\ IsSpace(Head(s)) THEN LStrip(Tail(s)) ELSE s
RECURSIVE RStrip(_)
RStrip(s) == IF s # <<>> /\ IsSpace(s[Len(s)]) THEN RStrip(SubSeq(s, 1, Len(s) - 1)) ELSE s
\* str.strip()
Strip(s) == RStrip(LStrip(s))
UpperChar(c) == CASE c = "h" -> "H" [] c = "i" -> "I" [] c = "x" -> "X" [] OTHER -> c
\* str.upper()
Upper(s) == [i \in 1..Len(s) |-> UpperChar(s[i])]

Digits == {"0", "1", "2", "3", "4", "5", "6", "7", "8", "9"}
DigitVal(c) == CASE c = "0" -> 0 [] c = "1" -> 1 [] c = "2" -> 2 [] c = "3" -> 3
                 [] c = "4" -> 4 [] c = "5" -> 5 [] c = "6" -> 6 [] c = "7" -> 7
                 [] c = "8" -> 8 [] c = "9" -> 9 [] OTHER -> 0
RECURSIVE DigitsToNat(_)
DigitsToNat(s) == IF s = <<>> THEN 0
                  ELSE 10 * DigitsToNat(SubSeq(s, 1, Len(s) - 1)) + DigitVal(s[Len(s)])
AllDigits(s) == \A i \in 1..Len(s) : s[i] \in Digits
\* position of the first "." of s, or Len(s) + 1
DotPos(s) == IF \E i \in 1..Len(s) : s[i] = "."
             THEN CHOOSE i \in 1..Len(s) : s[i] = "." /\ \A j \in 1..(i - 1) : s[j] # "."
             ELSE Len(s) + 1

(***************************************************************************)
(* int(float(v)) of a string v, over the characters the model feeds it     *)
(* (digits, ".", "-", "+", " ", letters that start no float literal):      *)
(* surrounding blanks, an optional sign, digits with an optional fraction, *)
(* at least one digit.  ok = FALSE is the ValueError.                      *)
(***************************************************************************)
FloatParts(negative, ip, fp) ==
    IF AllDigits(ip) /\ AllDigits(fp) /\ Len(ip) + Len(fp) >= 1
    THEN [ok |-> TRUE, n |-> IF negative THEN 0 - DigitsToNat(ip) ELSE DigitsToNat(ip)]
    ELSE [ok |-> FALSE, n |-> 0]
FloatBody(negative, body, dot) ==
    FloatParts(negative, SubSeq(body, 1, dot - 1), SubSeq(body, dot + 1, Len(body)))
FloatSigned(t) ==
    IF t # <<>> /\ Head(t) \in {"-", "+"}
    THEN FloatBody(Head(t) = "-", Tail(t), DotPos(Tail(t)))
    ELSE FloatBody(FALSE, t, DotPos(t))
IntOfFloatStr(v) == FloatSigned(Strip(v))

\* bool(x) of a flag that is "True", "False" or "None" (absent)
Truthy(flag) == flag = "True"

(***************************************************************************)
(* _norm_value(meas) -> <<value, isHi>>                                    *)
(***************************************************************************)
\* try: v_num = int(float(v)); except: v_num = 0
IntOrZero(p) == IF p.ok THEN p.n ELSE 0
NormStr(v, is_hi) ==
    IF Upper(Strip(v.s)) = <<"H", "I">> THEN <<HiValue, TRUE>>
    ELSE <<IntOrZero(IntOfFloatStr(v.s)), is_hi>>

IntOf(v) == CASE v.type = "int" -> v.n
              [] v.type = "float" -> TruncTenths(v.n)
              [] OTHER -> 0

Clamp(v_num, is_hi) == IF v_num >= HiValue THEN <<HiValue, TRUE>> ELSE <<v_num, is_hi>>

NormOf(v, is_hi) ==
    IF v.type = "str" THEN NormStr(v, is_hi)
    ELSE Clamp(IntOf(v), is_hi)
_norm_value(m) == NormOf(m.value, Truthy(m.isHi) \/ Truthy(m.is_hi))


(***************************************************************************)
(* Raw timestamps.  A raw timestamp is a record [type, epoch, n, aware,    *)
(* off, text]:                                                             *)
(*   NoneType;                                                             *)
(*   int / float: the number T0 + n (epoch "ms", above 10**12) or          *)
(*     T0/1000 + n (epoch "s", at most 10**12); a float carries n in       *)
(*     tenths;                                                             *)
(*   str: text says what the characters are: "iso" (an ISO-8601 date-time  *)
(*     with wall clock T0 + n ms and, when aware, UTC offset off minutes), *)
(*     "number" (the decimal T0/1000 + n), "bad" (neither), "empty";       *)
(*   datetime: wall clock T0 + n ms, whole seconds, UTC offset off minutes *)
(*     when aware;                                                         *)
(*   list: a value of no supported type.                                   *)
(* The feeds of the model hold no numeric zero.                            *)
(***************************************************************************)
TsNone == [type |-> "NoneType", epoch |-> "", n |-> 0, aware |-> FALSE, off |-> 0, text |-> ""]
TsEpochMs(x) == [TsNone EXCEPT !.type = "int", !.epoch = "ms", !.n = x]
TsEpochSec(y) == [TsNone EXCEPT !.type = "int", !.epoch = "s", !.n = y]
TsEpochSecFloat(tenths) == [TsNone EXCEPT !.type = "float", !.epoch = "s", !.n = tenths]
TsIsoStr(wall, aware, off) ==
    [TsNone EXCEPT !.type = "str", !.text = "iso", !.n = wall, !.aware = aware, !.off = off]
TsNumStr(y) == [TsNone EXCEPT !.type = "str", !.text = "number", !.n = y]
TsBadStr == [TsNone EXCEPT !.type = "str", !.text = "bad"]
TsEmptyStr == [TsNone EXCEPT !.type = "str", !.text = "empty"]
TsDatetime(wall, aware, off) ==
    [TsNone EXCEPT !.type = "datetime", !.n = wall, !.aware = aware, !.off = off]
TsList == [TsNone EXCEPT !.type = "list"]

\* truth value of a raw timestamp, as `or` tests it
TsTruthy(v) == ~(v.type = "NoneType" \/ (v.type = "str" /\ v.text = "empty"))
PyOr(a, b) == IF TsTruthy(a) THEN a ELSE b

\* a raw record, dict or object; an absent key or attribute reads as None
Raw(shape, timestamp, time, date, value, isHi, is_hi) ==
    [shape |-> shape, timestamp |-> timestamp, time |-> time, date |-> date,
     value |-> value, isHi |-> isHi, is_hi |-> is_hi]

_get_timestamp(m) ==
    IF m.shape = "dict" THEN PyOr(PyOr(m.timestamp, m.time), m.date)
    ELSE m.timestamp

\* ZoneInfo(assume_tz_name), falling back to UTC when the name is unknown
ZoneOffsetMin(assume_tz_name) ==
    CASE assume_tz_name = "Asia/Tokyo" -> TokyoOffsetMin
      [] assume_tz_name = "UTC" -> 0
      [] OTHER -> 0

\* the str branch: fromisoformat, then float + fromtimestamp(tz=utc)
ParseTsStr(dt) ==
    CASE dt.text = "iso" -> [exc |-> "", dt |-> TsDatetime(dt.n, dt.aware, dt.off)]
      [] dt.text = "number" -> [exc |-> "", dt |-> TsDatetime(dt.n * 1000, TRUE, 0)]
      [] OTHER -> [exc |-> "ValueError", dt |-> dt]

(***************************************************************************)
(* _dt_to_epoch_ms(dt, assume_tz_name) -> [exc, ms]; exc = "" is a normal  *)
(* return of ms, anything else the exception the call raises.              *)
(***************************************************************************)
\* return v if v > 10**12 else v * 1000, with v = int(dt)
EpochNumber(epoch, v) == [exc |-> "", ms |-> IF epoch = "ms" THEN v ELSE v * 1000]
\* from the isinstance(dt, datetime) test on, p the outcome of the str branch
EpochOfParsed(p, assume_tz_name) ==
    IF p.exc # "" THEN [exc |-> p.exc, ms |-> 0]
    ELSE IF p.dt.type # "datetime" THEN [exc |-> "TypeError", ms |-> 0]
    ELSE [exc |-> "",
          ms |-> p.dt.n - (IF p.dt.aware THEN p.dt.off ELSE ZoneOffsetMin(assume_tz_name))
                              * MinuteMs]
_dt_to_epoch_ms(dt, assume_tz_name) ==
    IF dt.type \in {"int", "float"}
    THEN EpochNumber(dt.epoch, IF dt.type = "float" THEN TruncTenths(dt.n) ELSE dt.n)
    ELSE EpochOfParsed(IF dt.type = "str" THEN ParseTsStr(dt) ELSE [exc |-> "", dt |-> dt],
                       assume_tz_name)

MinuteOf(ts) == ts \div MinuteMs

(***************************************************************************)
(* fetch_glucose_data, from the two feeds on                               *)
(***************************************************************************)
NewMeasurement(ts_ms, nv, src_name) ==
    [timestamp |-> ts_ms, value |-> nv[1], isHi |-> nv[2], source |-> src_name]
\* the loop body from ts_ms = _dt_to_epoch_ms(...) on; acc = [exc, out]
AppendMeasurement(m, t, src_name, acc) ==
    IF t.exc # "" THEN [exc |-> t.exc, out |-> acc.out]
    ELSE [exc |-> "", out |-> Append(acc.out, NewMeasurement(t.ms, _norm_value(m), src_name))]
\* the loop body from `if ts_raw is None: continue` on
HandleRaw(m, ts_raw, src_name, tz, acc) ==
    IF ts_raw.type = "NoneType" THEN acc
    ELSE AppendMeasurement(m, _dt_to_epoch_ms(ts_raw, tz), src_name, acc)
\* the first loop over one feed
RECURSIVE Collect(_, _, _, _)
Collect(arr, src_name, tz, acc) ==
    IF arr = <<>> \/ acc.exc # "" THEN acc
    ELSE Collect(Tail(arr), src_name, tz,
                 HandleRaw(Head(arr), _get_timestamp(Head(arr)), src_name, tz, acc))

\* by_min[k] = m on a dict kept as its items in insertion order
DictSetFirstWins(d, k, m) ==
    IF \E i \in 1..Len(d) : d[i].k = k THEN d ELSE Append(d, [k |-> k, m |-> m])
DictSet(d, k, m) ==
    IF \E i \in 1..Len(d) : d[i].k = k
    THEN [i \in 1..Len(d) |-> IF d[i].k = k THEN [k |-> k, m |-> m] ELSE d[i]]
    ELSE Append(d, [k |-> k, m |-> m])

RECURSIVE ByMin(_, _)
ByMin(ms, d) ==
    IF ms = <<>> THEN d
    ELSE ByMin(Tail(ms), DictSet(d, MinuteOf(Head(ms).timestamp), Head(ms)))

\* list.sort(key=timestamp): stable insertion sort
RECURSIVE InsertByTs(_, _)
InsertByTs(sorted, m) ==
    IF sorted = <<>> THEN <<m>>
    ELSE IF sorted[Len(sorted)].timestamp <= m.timestamp THEN Append(sorted, m)
    ELSE Append(InsertByTs(SubSeq(sorted, 1, Len(sorted) - 1), m), sorted[Len(sorted)])
RECURSIVE SortRec(_, _)
SortRec(l, acc) == IF l = <<>> THEN acc ELSE SortRec(Tail(l), InsertByTs(acc, Head(l)))
NoSort(l) == l
SortByTs(l) == SortRec(l, <<>>)

PopSource(m) == [timestamp |-> m.timestamp, value |-> m.value, isHi |-> m.isHi]
PopSources(l) == [i \in 1..Len(l) |-> PopSource(l[i])]
\* list(by_min.values())
DictValues(d) == [i \in 1..Len(d) |-> d[i].m]
\* from the second loop to the return
Deduplicate(all) == PopSources(SortByTs(DictValues(ByMin(all, <<>>))))

FetchResult(a) ==
    IF a.exc # "" THEN [exc |-> a.exc, all |-> <<>>, unique |-> <<>>]
    ELSE [exc |-> "", all |-> a.out, unique |-> Deduplicate(a.out)]
fetch_glucose_data(graph, logb, tz) ==
    FetchResult(Collect(logb, "logbook", tz,
                        Collect(graph, "graph", tz, [exc |-> "", out |-> <<>>])))

(***************************************************************************)
(* write_to_firebase.  The store is a bag of documents: document ids are   *)
(* store-generated, so two documents may hold the same record.  A call     *)
(* suspends at its network calls only: the query and each batch.commit().  *)
(* A commit is atomic: it writes its whole batch or raises.                *)
(***************************************************************************)
Runs == {1, 2, 3}
NoRet == 0 - 1
Range(s) == {s[i] : i \in 1..Len(s)}
BagOfSeq(s) == SetToBag(Range(s))

\* .where("timestamp", ">=", min_ts).where("timestamp", "<=", max_ts)
InRangeOpenLeft(ts, min_ts, max_ts) == ts > min_ts /\ ts <= max_ts
InRange(ts, min_ts, max_ts) == ts >= min_ts /\ ts <= max_ts

ExistingDocs(st, min_ts, max_ts) ==
    {d \in BagToSet(st) : InRange(d.timestamp, min_ts, max_ts)}

ExistingMinutes(docs) == {MinuteOf(d.timestamp) : d \in docs}

\* if minute_key in existing_minutes: continue
NeverExisting(minute_key, em) == FALSE
IsExisting(minute_key, em) == minute_key \in em

\* if batch_count >= 450
ShouldCommitAbove(batch_count) == batch_count > BatchCap
ShouldCommit(batch_count) == batch_count >= BatchCap

\* if batch_count > 0
ShouldFlush(batch_count) == batch_count > 0

(***************************************************************************)
(* The for loop from index i on, entered with an empty batch, up to the    *)
(* next network call: the records it stages, and whether it stops at the   *)
(* commit inside the loop, at the final commit, or at the return.          *)
(***************************************************************************)
Advance(ms, em, i) ==
    LET Staged(j) == j >= i /\ ~IsExisting(MinuteOf(ms[j].timestamp), em)
        new == SelectSeq([j \in 1..Len(ms) |-> j], Staged)
        full == \E c \in 1..Len(new) : ShouldCommit(c)
        k == IF full
             THEN CHOOSE c \in 1..Len(new) :
                      ShouldCommit(c) /\ \A d \in 1..(c - 1) : ~ShouldCommit(d)
             ELSE Len(new)
        staged == [c \in 1..k |-> ms[new[c]]]
    IN  [batch |-> staged,
         next_i |-> IF full THEN new[k] + 1 ELSE Len(ms) + 1,
         call |-> IF full THEN "commit_loop"
                  ELSE IF ShouldFlush(k) THEN "commit_flush"
                  ELSE "done"]

Active(r) == wpc[r] \in {"commit_loop", "commit_flush"}

\* the records the call of run r found new and did not commit
Unwritten(r) ==
    {m \in Range(measurements[r]) :
        /\ ~IsExisting(MinuteOf(m.timestamp), existing_minutes[r])
        /\ \A c \in 1..Len(commits[r]) : m \notin Range(commits[r][c])}

\* what the next call of run r remembers of this one: only a call with the same
\* record set looks back
NoCall == [outcome |-> "other", unwritten |-> {}, added |-> 0]
Summary(r, ms) ==
    IF ms = measurements[r] /\ wpc[r] \in {"done", "failed"}
    THEN [outcome |-> wpc[r], unwritten |-> Unwritten(r), added |-> added[r]]
    ELSE NoCall

\* write_to_firebase(db, ms) up to its first commit, or to its return
Call(r, ms) ==
    /\ ~Active(r)
    /\ prev' = [prev EXCEPT ![r] = Summary(r, ms)]
    /\ measurements' = [measurements EXCEPT ![r] = ms]
    /\ store0' = [store0 EXCEPT ![r] = store]
    /\ commits' = [commits EXCEPT ![r] = <<>>]
    /\ store' = store
    /\ IF ms = <<>>
       THEN /\ existing_minutes' = [existing_minutes EXCEPT ![r] = {}]
            /\ next_i' = [next_i EXCEPT ![r] = 1]
            /\ batch' = [batch EXCEPT ![r] = <<>>]
            /\ added' = [added EXCEPT ![r] = 0]
            /\ ret' = [ret EXCEPT ![r] = 0]
            /\ wpc' = [wpc EXCEPT ![r] = "done"]
       ELSE LET min_ts == ms[1].timestamp
                max_ts == ms[Len(ms)].timestamp
                em == ExistingMinutes(ExistingDocs(store, min_ts, max_ts))
                adv == Advance(ms, em, 1)
            IN  /\ existing_minutes' = [existing_minutes EXCEPT ![r] = em]
                /\ next_i' = [next_i EXCEPT ![r] = adv.next_i]
                /\ batch' = [batch EXCEPT ![r] = adv.batch]
                /\ added' = [added EXCEPT ![r] = Len(adv.batch)]
                /\ ret' = [ret EXCEPT ![r] = IF adv.call = "done" THEN Len(adv.batch) ELSE NoRet]
                /\ wpc' = [wpc EXCEPT ![r] = adv.call]
    /\ UNCHANGED <<normVars, fetchVars>>

\* the query raises: the call ends before it stages anything
QueryFail(r, ms) ==
    /\ ~Active(r)
    /\ ms # <<>>
    /\ prev' = [prev EXCEPT ![r] = Summary(r, ms)]
    /\ measurements' = [measurements EXCEPT ![r] = ms]
    /\ store0' = [store0 EXCEPT ![r] = store]
    /\ commits' = [commits EXCEPT ![r] = <<>>]
    /\ existing_minutes' = [existing_minutes EXCEPT ![r] = {}]
    /\ next_i' = [next_i EXCEPT ![r] = 1]
    /\ batch' = [batch EXCEPT ![r] = <<>>]
    /\ added' = [added EXCEPT ![r] = 0]
    /\ ret' = [ret EXCEPT ![r] = NoRet]
    /\ wpc' = [wpc EXCEPT ![r] = "query_failed"]
    /\ UNCHANGED <<store, normVars, fetchVars>>

\* batch.commit() succeeds; the call runs on to its next commit or its return
CommitOk(r) ==
    /\ Active(r)
    /\ store' = store (+) BagOfSeq(batch[r])
    /\ commits' = [commits EXCEPT ![r] = Append(@, batch[r])]
    /\ IF wpc[r] = "commit_loop"
       THEN LET adv == Advance(measurements[r], existing_minutes[r], next_i[r])
            IN  /\ next_i' = [next_i EXCEPT ![r] = adv.next_i]
                /\ batch' = [batch EXCEPT ![r] = adv.batch]
                /\ added' = [added EXCEPT ![r] = @ + Len(adv.batch)]
                /\ ret' = [ret EXCEPT ![r] = IF adv.call = "done" THEN added[r] + Len(adv.batch)
                                             ELSE NoRet]
                /\ wpc' = [wpc EXCEPT ![r] = adv.call]
       ELSE /\ batch' = [batch EXCEPT ![r] = <<>>]
            /\ ret' = [ret EXCEPT ![r] = added[r]]
            /\ wpc' = [wpc EXCEPT ![r] = "done"]
            /\ UNCHANGED <<next_i, added>>
    /\ UNCHANGED <<measurements, existing_minutes, store0, prev, normVars, fetchVars>>

\* batch.commit() raises: nothing of the batch is written, the run aborts
CommitFail(r) ==
    /\ Active(r)
    /\ wpc' = [wpc EXCEPT ![r] = "failed"]
    /\ UNCHANGED <<store, measurements, existing_minutes, next_i, batch, added, ret,
                   commits, store0, prev, normVars, fetchVars>>

(***************************************************************************)
(* Inputs of the model                                                     *)
(***************************************************************************)
Rec(t) == [timestamp |-> t, value |-> 120, isHi |-> FALSE]

\* two timestamps to a minute: 0:00.0, 0:00.5, 0:01.0, 0:01.5, ...
Times == {k * (MinuteMs \div 2) : k \in 0..MaxTick}
Docs == {Rec(t) : t \in Times}

\* what fetch_glucose_data returns: ascending, one record per minute bucket
IsDedupOutput(s) ==
    \A i \in 1..(Len(s) - 1) : MinuteOf(s[i].timestamp) < MinuteOf(s[i + 1].timestamp)

Inputs ==
    {s \in UNION {[1..n -> Docs] : n \in 0..(MaxTick \div 2 + 1)} : IsDedupOutput(s)}

InitStores == {SetToBag(S) : S \in SUBSET Docs}

\* long inputs: one record a minute, at the half minute
Ramp(n) == [i \in 1..n |-> Rec(i * MinuteMs + MinuteMs \div 2)]
BigSizes == {q * BatchCap + d : q \in 0..MaxFullBatches, d \in {0, 1, 100, BatchCap - 1}}
BigInputs == {Ramp(n) : n \in BigSizes}
\* stores that already hold a record for every stride-th minute (none for stride 0)
StrideStore(stride) ==
    SetToBag({Rec(i * MinuteMs) :
                 i \in {j \in 1..((MaxFullBatches + 1) * BatchCap) : stride > 0 /\ j % stride = 0}})
BatchStores == {StrideStore(stride) : stride \in {0, 2, 3}}

Flags == {"None", "True", "False"}
NormValues ==
    {PyNone, PyInt(0), PyInt(120), PyInt(499), PyInt(500), PyInt(501), PyInt(600),
     PyFloat(1205), PyFloat(4999), PyFloat(5000), PyFloat(5005), PyFloat(6000),
     PyStr(<<"H", "I">>), PyStr(<<"h", "i">>), PyStr(<<" ", "H", "i", " ">>),
     PyStr(<<"1", "2", "0">>), PyStr(<<"4", "9", "9">>), PyStr(<<"4", "9", "9", ".", "9">>),
     PyStr(<<"5", "0", "0">>), PyStr(<<"5", "0", "0", ".", "5">>), PyStr(<<" ", "6", "0", "0">>),
     PyStr(<<"-", "5">>), PyStr(<<"x">>), PyStr(<<>>)}
NormInputs ==
    {Raw(shape, TsEpochMs(0), TsNone, TsNone, v, f1, f2) :
        shape \in {"dict", "object"}, v \in NormValues, f1 \in Flags, f2 \in Flags}

\* wall clock that reads T0 + x in Asia/Tokyo
TokyoWall(x) == x + TokyoOffsetMin * MinuteMs
FeedRecords ==
    {Raw("dict", TsEpochMs(5000), TsNone, TsNone, PyInt(120), "None", "None"),
     Raw("dict", TsNone, TsIsoStr(45000, TRUE, 0), TsNone, PyStr(<<"H", "I">>), "None", "None"),
     Raw("object", TsDatetime(TokyoWall(65000), FALSE, 0), TsNone, TsNone, PyInt(135), "False", "None"),
     Raw("dict", TsEmptyStr, TsNone, TsNumStr(95), PyFloat(5005), "None", "None"),
     Raw("object", TsEpochSec(125), TsNone, TsNone, PyStr(<<"6", "0", "0">>), "None", "None"),
     Raw("dict", TsNone, TsNone, TsNone, PyInt(110), "None", "None"),
     Raw("dict", TsBadStr, TsNone, TsNone, PyInt(140), "None", "None"),
     Raw("object", TsList, TsNone, TsNone, PyInt(150), "None", "None")}
Feeds == UNION {[1..n -> FeedRecords] : n \in 0..MaxFeedLen}
TzNames == {"Asia/Tokyo", "UTC"}

(***************************************************************************)
(* Initial states                                                          *)
(***************************************************************************)
NotRun == <<>>
NormIdle == meas = Raw("dict", TsNone, TsNone, TsNone, PyNone, "None", "None") /\ norm = NotRun
FetchIdle ==
    /\ graph_data = <<>>
    /\ logbook = <<>>
    /\ assume_tz = "Asia/Tokyo"
    /\ fetch_pc = "idle"
    /\ all_measurements = <<>>
    /\ unique = <<>>
WriterIdle ==
    /\ wpc = [r \in Runs |-> "idle"]
    /\ measurements = [r \in Runs |-> <<>>]
    /\ existing_minutes = [r \in Runs |-> {}]
    /\ next_i = [r \in Runs |-> 1]
    /\ batch = [r \in Runs |-> <<>>]
    /\ added = [r \in Runs |-> 0]
    /\ ret = [r \in Runs |-> NoRet]
    /\ commits = [r \in Runs |-> <<>>]
    /\ store0 = [r \in Runs |-> store]
    /\ prev = [r \in Runs |-> NoCall]

(***************************************************************************)
(* _norm_value alone                                                       *)
(***************************************************************************)
InitNorm == meas \in NormInputs /\ norm = NotRun /\ FetchIdle /\ store = EmptyBag /\ WriterIdle
NormValue ==
    /\ norm = NotRun
    /\ meas \in NormInputs
    /\ norm' = _norm_value(meas)
    /\ UNCHANGED <<meas, fetchVars, writeVars>>
NextNorm == NormValue
SpecNorm == InitNorm /\ [][NextNorm]_vars

(***************************************************************************)
(* fetch_glucose_data on a pair of feeds                                   *)
(***************************************************************************)
InitFetch ==
    /\ graph_data \in Feeds
    /\ logbook \in Feeds
    /\ assume_tz \in TzNames
    /\ fetch_pc = "start"
    /\ all_measurements = <<>>
    /\ unique = <<>>
    /\ NormIdle /\ store = EmptyBag /\ WriterIdle
Fetch ==
    /\ fetch_pc = "start"
    /\ LET res == fetch_glucose_data(graph_data, logbook, assume_tz)
       IN  /\ fetch_pc' = IF res.exc = "" THEN "returned" ELSE "raised"
           /\ all_measurements' = res.all
           /\ unique' = res.unique
    /\ UNCHANGED <<graph_data, logbook, assume_tz, normVars, writeVars>>
NextFetch == Fetch
SpecFetch == InitFetch /\ [][NextFetch]_vars

(***************************************************************************)
(* Runs of write_to_firebase one after the other (the scheduled job)       *)
(***************************************************************************)
SeqCall == \E ms \in Inputs : Call(1, ms)
SeqQueryFail == \E ms \in Inputs : QueryFail(1, ms)
SeqCommitOk == CommitOk(1)
SeqCommitFail == CommitFail(1)
Next == SeqCall \/ SeqQueryFail \/ SeqCommitOk \/ SeqCommitFail

\* from any store
Init == store \in InitStores /\ WriterIdle /\ NormIdle /\ FetchIdle
Spec == Init /\ [][Next]_vars

\* from the empty store
InitEmpty == store = EmptyBag /\ WriterIdle /\ NormIdle /\ FetchIdle
SpecFromEmpty == InitEmpty /\ [][Next]_vars

(***************************************************************************)
(* Two uncoordinated runs over the same record set, then later runs        *)
(***************************************************************************)
Finished(r) == wpc[r] \in {"done", "failed", "query_failed"}
RaceCall ==
    \E r \in {1, 2} : \E ms \in Inputs :
        /\ wpc[r] = "idle"
        /\ wpc[3 - r] = "idle" \/ ms = measurements[3 - r]
        /\ Call(r, ms)
RaceCommitOk == \E r \in {1, 2} : CommitOk(r)
RaceCommitFail == \E r \in {1, 2} : CommitFail(r)
LaterCall == Finished(1) /\ Finished(2) /\ \E ms \in Inputs : Call(3, ms)
LaterCommitOk == CommitOk(3)
LaterCommitFail == CommitFail(3)
NextRace ==
    RaceCall \/ RaceCommitOk \/ RaceCommitFail \/ LaterCall \/ LaterCommitOk \/ LaterCommitFail
SpecRace == InitEmpty /\ [][NextRace]_vars

(***************************************************************************)
(* Long inputs: a call that needs several batches, then the re-attempt     *)
(***************************************************************************)
InitBatch == store \in BatchStores /\ WriterIdle /\ NormIdle /\ FetchIdle
BatchCall == wpc[1] = "idle" /\ \E ms \in BigInputs : Call(1, ms)
BatchRetry == wpc[1] = "failed" /\ Call(1, measurements[1])
NextBatch == BatchCall \/ BatchRetry \/ SeqCommitOk \/ SeqCommitFail
SpecBatch == InitBatch /\ [][NextBatch]_vars

(***************************************************************************)
(* Properties                                                              *)
(***************************************************************************)
\* number of documents of the store in minute bucket b
BucketCount(st, b) ==
    BagCardinality([d \in {e \in BagToSet(st) : MinuteOf(e.timestamp) = b} |-> st[d]])
Buckets(s) == {MinuteOf(s[i].timestamp) : i \in 1..Len(s)}
\* the batches a call committed, as one bag
RECURSIVE BagOfCommits(_)
BagOfCommits(cs) == IF cs = <<>> THEN EmptyBag ELSE BagOfSeq(Head(cs)) (+) BagOfCommits(Tail(cs))
\* the minute buckets of the documents a query over the store st returns for ms
QueriedBuckets(st, ms) ==
    {MinuteOf(d.timestamp) :
        d \in {e \in BagToSet(st) : /\ e.timestamp >= ms[1].timestamp
                                     /\ e.timestamp <= ms[Len(ms)].timestamp}}
\* the input records of run r whose bucket the queried documents do not cover
Uncovered(ms, covered) == {m \in Range(ms) : MinuteOf(m.timestamp) \notin covered}
NewRecords(r) ==
    IF measurements[r] = <<>> THEN {}
    ELSE Uncovered(measurements[r], QueriedBuckets(store0[r], measurements[r]))

\* C1 (idempotence): a call that repeats the record set of the call before it,
\* which returned, and that does not fail itself, stages nothing: it returns 0
\* and leaves the store as it found it.
C1_Idempotent ==
    (prev[1].outcome = "done" /\ wpc[1] \notin {"failed", "query_failed"})
        => (wpc[1] = "done" /\ ret[1] = 0 /\ store = store0[1])
\* C1: a second call has returned after a first call that wrote records
C1_Witness ==
    prev[1].outcome = "done" /\ prev[1].added > 0 /\ wpc[1] = "done"
        /\ Len(measurements[1]) >= 2

\* C2 (minute-bucket uniqueness), as claimed: from the empty store, runs one
\* after the other never leave two documents in one minute bucket.
C2_BucketsUnique ==
    \A d \in BagToSet(store) : BucketCount(store, MinuteOf(d.timestamp)) <= 1

\* C8 (returned count): a call that returns has added exactly `ret` documents,
\* the input records whose bucket the queried documents did not cover; the
\* rest of the input is the skipped count of main; an empty input returns 0
\* and neither queries nor writes.
C8_ReturnedCount ==
    wpc[1] = "done" =>
        /\ ret[1] = BagCardinality(store) - BagCardinality(store0[1])
        /\ ret[1] = Cardinality(NewRecords(1))
        /\ store = store0[1] (+) SetToBag(NewRecords(1))
        /\ Len(measurements[1]) - ret[1]
              = Cardinality(Range(measurements[1]) \ NewRecords(1))
        /\ measurements[1] = <<>> => (ret[1] = 0 /\ existing_minutes[1] = {} /\ commits[1] = <<>>)
\* C8: a call returned having written some records and skipped others
C8_Witness ==
    wpc[1] = "done" /\ ret[1] > 0 /\ ret[1] < Len(measurements[1])

\* C9 (commit failure and re-attempt), as claimed: after a failed commit the
\* store holds what the call found plus the batches committed before the
\* failure; a following successful call with the same record set writes exactly
\* the records left unwritten and leaves one document per input minute bucket.
C9_FailureAndReattempt ==
    /\ wpc[1] = "failed" => store = store0[1] (+) BagOfCommits(commits[1])
    /\ (wpc[1] = "done" /\ prev[1].outcome = "failed") =>
          /\ BagOfCommits(commits[1]) = SetToBag(prev[1].unwritten)
          /\ \A b \in Buckets(measurements[1]) : BucketCount(store, b) = 1
\* the part of C9 that does not rest on bucket uniqueness
C9_CommittedPrefixKept ==
    /\ wpc[1] = "failed" => store = store0[1] (+) BagOfCommits(commits[1])
    /\ (wpc[1] = "done" /\ prev[1].outcome = "failed") =>
          /\ BagOfCommits(commits[1]) = SetToBag(prev[1].unwritten)
          /\ \A b \in Buckets(measurements[1]) : BucketCount(store, b) >= 1

\* C10 (concurrent runs), as claimed: two runs over the same record set that
\* both query before either commits both write every new record, so its bucket
\* holds two documents; and a later run on its own adds nothing to such a bucket.
RacedBuckets ==
    IF wpc[1] = "done" /\ wpc[2] = "done" /\ store0[1] = store0[2]
    THEN {MinuteOf(m.timestamp) : m \in NewRecords(1)}
    ELSE {}
C10_RaceThenSettled ==
    /\ \A b \in RacedBuckets : BucketCount(store, b) >= 2
    /\ wpc[3] = "done" =>
          \A b \in RacedBuckets : BucketCount(store, b) = BucketCount(store0[3], b)
\* the part of C10 about the race itself
C10_RaceDoubleWrites ==
    \A m \in (IF wpc[1] = "done" /\ wpc[2] = "done" /\ store0[1] = store0[2]
              THEN NewRecords(1) ELSE {}) : CopiesIn(m, store) >= 2

\* C5 (capped batches): a call that returns, with n new records, has issued
\* ceil(n / 450) commits, each of 450 writes but the last, which holds 1..450;
\* none is empty and the sizes add up to n.
C5_CappedBatches ==
    wpc[1] = "done" =>
        LET n == Cardinality(NewRecords(1))
            k == Len(commits[1])
        IN  /\ k = (n + BatchCap - 1) \div BatchCap
            /\ \A c \in 1..(k - 1) : Len(commits[1][c]) = BatchCap
            /\ k > 0 => /\ Len(commits[1][k]) \in 1..BatchCap
                        /\ (k - 1) * BatchCap + Len(commits[1][k]) = n
\* C5: 1000 new records went out as 450, 450, 100
C5_Witness ==
    /\ wpc[1] = "done"
    /\ Cardinality(NewRecords(1)) = 1000
    /\ [c \in 1..Len(commits[1]) |-> Len(commits[1][c])] = <<450, 450, 100>>

\* C4 (clamping), as claimed: a raw value >= 500 in any accepted form, or the
\* sentinel "HI", normalizes to exactly (500, True).
RawIsHigh(v) ==
    CASE v.type = "int" -> v.n >= HiValue
      [] v.type = "float" -> v.n >= HiValue * 10
      [] v.type = "str" -> \/ Upper(Strip(v.s)) = <<"H", "I">>
                           \/ IntOfFloatStr(v.s).ok /\ IntOfFloatStr(v.s).n >= HiValue
      [] OTHER -> FALSE
C4_Clamped ==
    (norm # NotRun /\ RawIsHigh(meas.value)) => norm = <<HiValue, TRUE>>

\* the last record of bucket k among the collected measurements
LastOfBucket(all, k) ==
    all[CHOOSE i \in 1..Len(all) :
            /\ MinuteOf(all[i].timestamp) = k
            /\ \A j \in (i + 1)..Len(all) : MinuteOf(all[j].timestamp) # k]
\* C3 (minute-bucket deduplication): the returned list holds exactly one record
\* for every minute bucket of the collected measurements (graph records first,
\* then logbook records), and it is the last one collected for that bucket.
C3_LastOfBucketWins ==
    fetch_pc = "returned" =>
        /\ \A i, j \in 1..Len(all_measurements) :
              (i < j /\ all_measurements[i].source = "logbook")
                  => all_measurements[j].source = "logbook"
        /\ Buckets(unique) = Buckets(all_measurements)
        /\ Len(unique) = Cardinality(Buckets(all_measurements))
        /\ \A i \in 1..Len(unique) :
              unique[i] = PopSource(LastOfBucket(all_measurements,
                                                 MinuteOf(unique[i].timestamp)))
\* C3: a logbook record replaced a graph record of the same minute
C3_Witness ==
    /\ fetch_pc = "returned"
    /\ Len(unique) >= 2
    /\ \E i, j \in 1..Len(all_measurements) :
          /\ i < j
          /\ all_measurements[i].source = "graph"
          /\ all_measurements[j].source = "logbook"
          /\ MinuteOf(all_measurements[i].timestamp) = MinuteOf(all_measurements[j].timestamp)
          /\ all_measurements[i].timestamp # all_measurements[j].timestamp
          /\ all_measurements[i].value # all_measurements[j].value

\* C7 (ordering): the returned list is strictly increasing in timestamp, so
\* its first and last records carry the least and the greatest timestamp.
C7_Ascending ==
    fetch_pc = "returned" =>
        /\ \A i \in 1..(Len(unique) - 1) : unique[i].timestamp < unique[i + 1].timestamp
        /\ \A i \in 1..Len(unique) :
              /\ unique[1].timestamp <= unique[i].timestamp
              /\ unique[i].timestamp <= unique[Len(unique)].timestamp
\* C7: the feeds delivered a later minute before an earlier one
C7_Witness ==
    /\ fetch_pc = "returned"
    /\ Len(unique) >= 3
    /\ \E i, j \in 1..Len(all_measurements) :
          i < j /\ MinuteOf(all_measurements[i].timestamp) > MinuteOf(all_measurements[j].timestamp)

\* a raw record whose timestamp can be determined
WellFormed(m) ==
    /\ _get_timestamp(m).type # "NoneType"
    /\ _dt_to_epoch_ms(_get_timestamp(m), assume_tz).exc = ""
\* C6 (malformed measurements are not fatal), as claimed: the call returns, and
\* returns what it returns for the feeds without their malformed records.
C6_MalformedDropped ==
    fetch_pc # "start" =>
        /\ fetch_pc = "returned"
        /\ unique = fetch_glucose_data(SelectSeq(graph_data, WellFormed),
                                       SelectSeq(logbook, WellFormed), assume_tz).unique

============================================================================
